---- MODULE Spec2Model ----
(***************************************************************************)
(* A model of the RAMSES field-handler registry and hydro schema inference *)
(* (yt/frontends/ramses/field_handlers.py) and of the Rockstar validity    *)
(* check (yt/frontends/halo_catalogs/data_structures.py).                  *)
(*                                                                         *)
(* File names are sequences of one-character strings, so that glob         *)
(* matching, str.split, str.endswith and the {:05d} formatting are         *)
(* computed character by character.  A path is a record [dir, name]: the   *)
(* directory is opaque, the last component is a character sequence.        *)
(* Field names are TLA+ strings.                                           *)
(***************************************************************************)
EXTENDS Integers, Sequences, FiniteSets, Bags

VARIABLES
    pc,                \* position in the import of field_handlers.py
    classes,           \* class name -> [base, class_dict] of the classes created so far
    FIELD_HANDLERS,    \* the module-level registry (a Python set), kept as a bag
    calls,             \* history: how often register_field_handler was called with each argument
    fs,                \* the file system: existing path -> content
    fluid_field_list,  \* HydroFieldFileHandler.fluid_field_list (class attribute)
    nvar,              \* HydroFieldFileHandler.nvar (class attribute)
    gamma,             \* dataset -> ds.gamma
    instances,         \* handler instances constructed so far
    last,              \* the most recent call: operation, arguments, outcome
    log,               \* the records the most recent call handed to mylog
    opened,            \* the paths the most recent call opened
    called             \* history: datasets whose get_field_list returned a list

vars == <<pc, classes, FIELD_HANDLERS, calls, fs, fluid_field_list, nvar, gamma,
          instances, last, log, opened, called>>

regVars == <<pc, classes, FIELD_HANDLERS, calls>>
ioVars == <<fs, fluid_field_list, nvar, gamma, instances, last, log, opened, called>>

(***************************************************************************)
(* Bounds                                                                  *)
(***************************************************************************)
MaxUserClasses == 2
MaxRegisterCalls == 2
MaxNvar == 13
MaxDomain == 2
MaxIout == 2
MaxFiles == 2

(***************************************************************************)
(* Python values                                                           *)
(***************************************************************************)
None == "None"
Absent == "<absent>"

\* Tagged values, for a variable that holds values of several Python types.
PyNone == [type |-> "NoneType"]
PyUnbound == [type |-> "<unbound>"]
PyList(items) == [type |-> "list", items |-> items]
PyInt(n) == [type |-> "int", val |-> n]
PyBool(b) == [type |-> "bool", val |-> b]

(***************************************************************************)
(* Character-level string operations                                       *)
(***************************************************************************)
DigitChars == <<"0", "1", "2", "3", "4", "5", "6", "7", "8", "9">>

RECURSIVE Str(_)
Str(n) ==
    IF n < 10 THEN DigitChars[n + 1]
    ELSE Str(n \div 10) \o DigitChars[(n % 10) + 1]

RECURSIVE Digits(_)
Digits(n) ==
    IF n < 10 THEN <<DigitChars[n + 1]>>
    ELSE Append(Digits(n \div 10), DigitChars[(n % 10) + 1])

RECURSIVE ZeroPad(_, _)
ZeroPad(s, width) ==
    IF Len(s) >= width THEN s ELSE ZeroPad(<<"0">> \o s, width)

Format05d(n) == ZeroPad(Digits(n), 5)

DigitValue(c) == CHOOSE d \in 0..9 : DigitChars[d + 1] = c

RECURSIVE ParseInt(_)
ParseInt(s) ==
    IF Len(s) = 0 THEN 0
    ELSE 10 * ParseInt(SubSeq(s, 1, Len(s) - 1)) + DigitValue(s[Len(s)])

RECURSIVE Split(_, _)
Split(s, sep) ==
    IF \A i \in 1..Len(s) : s[i] # sep THEN <<s>>
    ELSE LET k == CHOOSE i \in 1..Len(s) :
                      s[i] = sep /\ \A j \in 1..(i - 1) : s[j] # sep
         IN  <<SubSeq(s, 1, k - 1)>> \o Split(SubSeq(s, k + 1, Len(s)), sep)

EndsWith(s, suffix) ==
    /\ Len(s) >= Len(suffix)
    /\ SubSeq(s, Len(s) - Len(suffix) + 1, Len(s)) = suffix

RECURSIVE FnMatch(_, _)
FnMatch(name, pat) ==
    IF pat = <<>> THEN name = <<>>
    ELSE IF Head(pat) = "*"
         THEN FnMatch(name, Tail(pat)) \/ (name # <<>> /\ FnMatch(Tail(name), pat))
         ELSE /\ name # <<>>
              /\ Head(pat) = "?" \/ Head(pat) = Head(name)
              /\ FnMatch(Tail(name), Tail(pat))

(***************************************************************************)
(* The file system                                                         *)
(***************************************************************************)
Path(dir, name) == [dir |-> dir, name |-> name]

os_path_exists(p) == p \in DOMAIN fs

Glob(dir, pat) == {p \in DOMAIN fs : p.dir = dir /\ FnMatch(p.name, pat)}

(***************************************************************************)
(* Datasets                                                                *)
(***************************************************************************)
Datasets == {"A", "B"}

\* ds.parameter_filename: <output directory>/info_<iout, five digits>.txt
parameter_filename(ds) ==
    IF ds = "A"
    THEN Path("/run/output_00001",
              <<"i", "n", "f", "o", "_", "0", "0", "0", "0", "1", ".", "t", "x", "t">>)
    ELSE Path("/run/output_00002",
              <<"i", "n", "f", "o", "_", "0", "0", "0", "0", "2", ".", "t", "x", "t">>)

os_path_dirname(p) == p.dir
os_path_basename(p) == p.name
os_path_join(dir, name) == Path(dir, name)

\* os.path.basename(ds.parameter_filename).split(".")[0].split("_")[1]
OutputNumber(ds) ==
    Split(Split(os_path_basename(parameter_filename(ds)), ".")[1], "_")[2]

(***************************************************************************)
(* The registry                                                            *)
(***************************************************************************)
SetAdd(s, x) == IF BagIn(x, s) THEN s ELSE s (+) SetToBag({x})

get_field_handlers == FIELD_HANDLERS

register_field_handler_append(ph) ==
    /\ FIELD_HANDLERS' = FIELD_HANDLERS (+) SetToBag({ph})
    /\ calls' = calls (+) SetToBag({ph})

register_field_handler(ph) ==
    /\ FIELD_HANDLERS' = SetAdd(FIELD_HANDLERS, ph)
    /\ calls' = calls (+) SetToBag({ph})

(***************************************************************************)
(* Handler classes and the registering metaclass                           *)
(***************************************************************************)
UserClasses == {"UserHandler" \o Str(i) : i \in 1..MaxUserClasses}
ClassNames == {"FieldFileHandler", "HydroFieldFileHandler"} \cup UserClasses
Ftypes == {"ramses", "sink"}

\* cls.ftype by attribute lookup along the bases of cls, where cls is being
\* created with class_dict and base (looked up in the classes created so far).
RECURSIVE LookupFtype(_, _)
LookupFtype(class_dict, base) ==
    IF class_dict.ftype # Absent THEN class_dict.ftype
    ELSE LookupFtype(classes[base].class_dict, classes[base].base)

ftype(cls) == LookupFtype(classes[cls].class_dict, classes[cls].base)

MetaNew_own(name, base, class_dict) ==
    /\ classes' = [c \in DOMAIN classes \cup {name} |->
                     IF c = name THEN [base |-> base, class_dict |-> class_dict]
                     ELSE classes[c]]
    /\ IF class_dict.ftype \notin {None, Absent}
       THEN register_field_handler(name)
       ELSE UNCHANGED <<FIELD_HANDLERS, calls>>

\* RAMSESFieldFileHandlerRegister.__new__(meta, name, bases, class_dict)
MetaNew(name, base, class_dict) ==
    /\ classes' = [c \in DOMAIN classes \cup {name} |->
                     IF c = name THEN [base |-> base, class_dict |-> class_dict]
                     ELSE classes[c]]
    /\ IF LookupFtype(class_dict, base) # None
       THEN register_field_handler(name)
       ELSE UNCHANGED <<FIELD_HANDLERS, calls>>

\* Importing the module creates FieldFileHandler, then HydroFieldFileHandler.
DefineFieldFileHandler ==
    /\ pc = "import"
    /\ MetaNew("FieldFileHandler", "object", [ftype |-> None])
    /\ pc' = "base_defined"
    /\ UNCHANGED ioVars

DefineHydroFieldFileHandler ==
    /\ pc = "base_defined"
    /\ MetaNew("HydroFieldFileHandler", "FieldFileHandler", [ftype |-> "ramses"])
    /\ pc' = "loaded"
    /\ UNCHANGED ioVars

\* A later class statement deriving from a handler class already created.
DefineSubclass ==
    /\ pc = "loaded"
    /\ \E name \in UserClasses \ DOMAIN classes, base \in DOMAIN classes,
          ft \in Ftypes \cup {None, Absent} :
            MetaNew(name, base, [ftype |-> ft])
    /\ UNCHANGED <<pc, ioVars>>

\* A direct call of register_field_handler.
Descriptors == ClassNames \cup {"not_a_handler"}

RegisterCall ==
    /\ \E ph \in Descriptors :
          /\ CopiesIn(ph, calls) < MaxRegisterCalls
          /\ register_field_handler(ph)
    /\ UNCHANGED <<pc, classes, ioVars>>

InitRegistry ==
    /\ pc = "import"
    /\ classes = << >>
    /\ FIELD_HANDLERS = EmptyBag
    /\ calls = EmptyBag

\* The registry once field_handlers.py has been imported.
InitLoaded ==
    /\ pc = "loaded"
    /\ classes = [c \in {"FieldFileHandler", "HydroFieldFileHandler"} |->
                    IF c = "FieldFileHandler"
                    THEN [base |-> "object", class_dict |-> [ftype |-> None]]
                    ELSE [base |-> "FieldFileHandler", class_dict |-> [ftype |-> "ramses"]]]
    /\ FIELD_HANDLERS = SetToBag({"HydroFieldFileHandler"})
    /\ calls = SetToBag({"HydroFieldFileHandler"})

InitIdle ==
    /\ fs = << >>
    /\ fluid_field_list = PyUnbound
    /\ nvar = PyUnbound
    /\ gamma = [ds \in Datasets |-> Absent]
    /\ instances = {}
    /\ last = [op |-> "none"]
    /\ log = <<>>
    /\ opened = {}
    /\ called = {}

NextClasses ==
    \/ DefineFieldFileHandler
    \/ DefineHydroFieldFileHandler
    \/ DefineSubclass

InitClasses == InitRegistry /\ InitIdle

SpecClasses == InitClasses /\ [][NextClasses]_vars

NextRegistry ==
    \/ DefineFieldFileHandler
    \/ DefineHydroFieldFileHandler
    \/ RegisterCall

InitRegistryCalls == InitRegistry /\ InitIdle

SpecRegistry == InitRegistryCalls /\ [][NextRegistry]_vars

(***************************************************************************)
(* HydroFieldFileHandler                                                   *)
(***************************************************************************)
Gammas == {"1.4", "1.6667"}

\* fname = 'part_{iout:05d}.out{icpu:05d}'
fname_format(iout, icpu) ==
    <<"p", "a", "r", "t", "_">> \o Format05d(iout)
        \o <<".", "o", "u", "t">> \o Format05d(icpu)

\* FieldFileHandler.__init__(self, ds, domain_id)
HandlerInit(ds, domain_id) ==
    LET basename == os_path_dirname(parameter_filename(ds))
        iout == ParseInt(OutputNumber(ds))
        icpu == domain_id
    IN  [ds |-> ds, domain_id |-> domain_id,
         fname |-> os_path_join(basename, fname_format(iout, icpu))]

\* FieldFileHandler.exists (a property of an instance)
exists(self) == os_path_exists(self.fname)

\* HydroFieldFileHandler.any_exist(cls, ds)
any_exist(ds) ==
    LET files == <<"h", "y", "d", "r", "o", "_", "?", "?", "?", "?", "?",
                   ".", "o", "u", "t", "?", "?", "?", "?", "?">>
    IN  Cardinality(Glob(os_path_dirname(parameter_filename(ds)), files)) > 0

\* fpu.read_attrs(f, attrs) on a well-formed header record
read_attrs(f) == [nvar |-> fs[f].nvar, gamma |-> fs[f].gamma]

LogRecord(level, msg) == [level |-> level, msg |-> msg]

\* The branches of get_field_list that bind the local variable fields:
\* its value (unbound when no branch assigned it), the records logged and the
\* exception raised on the way.

\* if nvar < 10 (the RT branch)
WithoutIRTrapping_le(n) == n <= 10

WithoutIRTrapping(n) == n < 10

\* if nvar < 5 (the branch without RT)
TooSmall_lt4(n) == n < 4

TooSmall(n) == n < 5

\* if nvar > 5 and nvar < 11
HydroWithMetals_lt10(n) == n > 5 /\ n < 10

HydroWithMetals(n) == n > 5 /\ n < 11

InferFields(n, rt_flag) ==
    IF rt_flag
    THEN IF WithoutIRTrapping(n)
         THEN [exc |-> None,
               fields |-> PyList(<<"Density", "x-velocity", "y-velocity", "z-velocity",
                                   "Pressure", "Metallicity", "HII", "HeII", "HeIII">>),
               log |-> <<LogRecord("info", "Detected RAMSES-RT file WITHOUT IR trapping.")>>]
         ELSE [exc |-> None,
               fields |-> PyList(<<"Density", "x-velocity", "y-velocity", "z-velocity",
                                   "Pres_IR", "Pressure", "Metallicity",
                                   "HII", "HeII", "HeIII">>),
               log |-> <<LogRecord("info", "Detected RAMSES-RT file WITH IR trapping.")>>]
    ELSE IF TooSmall(n)
         THEN [exc |-> "ValueError", fields |-> PyUnbound,
               log |-> <<LogRecord("debug",
                   "nvar=%s is too small! YT doesn't currently support 1D/2D runs in RAMSES %s")>>]
         ELSE LET f0 == PyUnbound
                  f1 == IF n = 5
                        THEN PyList(<<"Density",
                                      "x-velocity", "y-velocity", "z-velocity",
                                      "Pressure">>)
                        ELSE f0
                  f2 == IF HydroWithMetals(n)
                        THEN PyList(<<"Density",
                                      "x-velocity", "y-velocity", "z-velocity",
                                      "Pressure", "Metallicity">>)
                        ELSE f1
                  f3 == IF n = 11
                        THEN PyList(<<"Density",
                                      "x-velocity", "y-velocity", "z-velocity",
                                      "x-Bfield-left", "y-Bfield-left", "z-Bfield-left",
                                      "x-Bfield-right", "y-Bfield-right", "z-Bfield-right",
                                      "Pressure">>)
                        ELSE f2
                  f4 == IF n > 11
                        THEN PyList(<<"Density",
                                      "x-velocity", "y-velocity", "z-velocity",
                                      "x-Bfield-left", "y-Bfield-left", "z-Bfield-left",
                                      "x-Bfield-right", "y-Bfield-right", "z-Bfield-right",
                                      "Pressure", "Metallicity">>)
                        ELSE f3
              IN  [exc |-> None, fields |-> f4, log |-> <<>>]

\* "var"+str(len(fields))
PadName_oneBased(fields) == "var" \o Str(Len(fields) + 1)

PadName(fields) == "var" \o Str(Len(fields))

RECURSIVE PadFields_truncating(_, _)
PadFields_truncating(fields, n) ==
    IF Len(fields) < n
    THEN PadFields_truncating(Append(fields, PadName(fields)), n)
    ELSE SubSeq(fields, 1, n)

\* while len(fields) < nvar: fields.append("var"+str(len(fields)))
RECURSIVE PadFields(_, _)
PadFields(fields, n) ==
    IF Len(fields) < n
    THEN PadFields(Append(fields, PadName(fields)), n)
    ELSE fields

\* HydroFieldFileHandler.get_field_list(cls, ds)
get_field_list(ds) ==
    LET num == OutputNumber(ds)
        testdomain == 1
        dir == os_path_dirname(parameter_filename(ds))
        fname == os_path_join(dir,
                     <<"h", "y", "d", "r", "o">> \o <<"_">> \o num
                         \o <<".", "o", "u", "t">> \o Format05d(testdomain))
    IN  IF ~os_path_exists(fname)
        THEN /\ fluid_field_list' = PyList(<<>>)
             /\ last' = [op |-> "get_field_list", ds |-> ds, exc |-> None, ret |-> PyNone]
             /\ log' = <<>>
             /\ opened' = {}
             /\ UNCHANGED <<nvar, gamma, called>>
        ELSE LET hvals == read_attrs(fname)
                 n == hvals.nvar
                 rt_flag == Glob(dir, <<"i", "n", "f", "o", "_", "r", "t", "_", "*",
                                        ".", "t", "x", "t">>) # {}
                 inferred == InferFields(n, rt_flag)
             IN  /\ opened' = {fname}
                 /\ gamma' = [gamma EXCEPT ![ds] = hvals.gamma]
                 /\ nvar' = PyInt(n)
                 /\ IF inferred.exc # None
                    THEN /\ last' = [op |-> "get_field_list", ds |-> ds,
                                     exc |-> inferred.exc, ret |-> PyNone]
                         /\ log' = inferred.log
                         /\ UNCHANGED <<fluid_field_list, called>>
                    ELSE IF inferred.fields = PyUnbound
                    THEN /\ last' = [op |-> "get_field_list", ds |-> ds,
                                     exc |-> "UnboundLocalError", ret |-> PyNone]
                         /\ log' = inferred.log
                         /\ UNCHANGED <<fluid_field_list, called>>
                    ELSE LET fields == PadFields(inferred.fields.items, n)
                         IN  /\ log' = inferred.log \o <<LogRecord("debug",
                                    "No fields specified by user; automatically setting fields array to %s")>>
                             /\ fluid_field_list' = PyList(fields)
                             /\ last' = [op |-> "get_field_list", ds |-> ds,
                                         exc |-> None, ret |-> PyList(fields)]
                             /\ called' = called \cup {ds}

GetFieldList ==
    /\ \E ds \in Datasets : get_field_list(ds)
    /\ UNCHANGED <<regVars, fs, instances>>

Construct ==
    /\ \E ds \in Datasets, domain_id \in 1..MaxDomain :
          /\ instances' = instances \cup {HandlerInit(ds, domain_id)}
          /\ last' = [op |-> "__init__", ds |-> ds, exc |-> None, ret |-> PyNone]
    /\ log' = <<>>
    /\ opened' = {}
    /\ UNCHANGED <<regVars, fs, fluid_field_list, nvar, gamma, called>>

Exists ==
    /\ \E self \in instances :
          last' = [op |-> "exists", ds |-> self.ds, domain_id |-> self.domain_id,
                   exc |-> None, ret |-> PyBool(exists(self))]
    /\ log' = <<>>
    /\ opened' = {}
    /\ UNCHANGED <<regVars, fs, fluid_field_list, nvar, gamma, instances, called>>

AnyExist ==
    /\ \E ds \in Datasets :
          last' = [op |-> "any_exist", ds |-> ds, exc |-> None,
                   ret |-> PyBool(any_exist(ds))]
    /\ log' = <<>>
    /\ opened' = {}
    /\ UNCHANGED <<regVars, fs, fluid_field_list, nvar, gamma, instances, called>>

(***************************************************************************)
(* File systems the operations run on                                      *)
(***************************************************************************)
TextFile == [kind |-> "text"]
DataFile == [kind |-> "data"]
HydroFile(n, g) == [kind |-> "hydro", nvar |-> n, gamma |-> g]

InfoFile(ds) == parameter_filename(ds)

HydroName(iout, icpu) ==
    <<"h", "y", "d", "r", "o", "_">> \o Format05d(iout)
        \o <<".", "o", "u", "t">> \o Format05d(icpu)

PartName(iout, icpu) ==
    <<"p", "a", "r", "t", "_">> \o Format05d(iout)
        \o <<".", "o", "u", "t">> \o Format05d(icpu)

RtInfoName(iout) ==
    <<"i", "n", "f", "o", "_", "r", "t", "_">> \o Format05d(iout) \o <<".", "t", "x", "t">>

IoutOf(ds) == IF ds = "A" THEN 1 ELSE 2

DirOf(ds) == os_path_dirname(parameter_filename(ds))

\* Two RAMSES outputs, each with its info file, possibly the domain-1 hydro
\* file (with any nvar and gamma in its header) and possibly an RT info file.
InitFields ==
    /\ InitLoaded
    /\ \E hydro \in [Datasets -> BOOLEAN], rt \in [Datasets -> BOOLEAN],
          n \in [Datasets -> 0..MaxNvar], g \in [Datasets -> Gammas] :
          LET hydroFiles == {Path(DirOf(ds), HydroName(IoutOf(ds), 1)) :
                                ds \in {d \in Datasets : hydro[d]}}
              rtFiles == {Path(DirOf(ds), RtInfoName(IoutOf(ds))) :
                                ds \in {d \in Datasets : rt[d]}}
              infoFiles == {InfoFile(ds) : ds \in Datasets}
              owner(p) == CHOOSE ds \in Datasets : DirOf(ds) = p.dir
          IN  fs = [p \in hydroFiles \cup rtFiles \cup infoFiles |->
                      IF p \in hydroFiles THEN HydroFile(n[owner(p)], g[owner(p)])
                      ELSE TextFile]
    /\ fluid_field_list = PyUnbound
    /\ nvar = PyUnbound
    /\ gamma = [ds \in Datasets |-> Absent]
    /\ instances = {}
    /\ last = [op |-> "none"]
    /\ log = <<>>
    /\ opened = {}
    /\ called = {}

NextFields == GetFieldList

SpecFields == InitFields /\ [][NextFields]_vars

\* One RAMSES run directory (dataset A's) holding a few hydro and particle
\* files of any output number and domain; dataset B's directory holds none.
CandidateFiles ==
    {Path(DirOf("A"), HydroName(iout, icpu)) : iout \in 1..MaxIout, icpu \in 1..MaxDomain}
        \cup
    {Path(DirOf("A"), PartName(iout, icpu)) : iout \in 1..MaxIout, icpu \in 1..MaxDomain}

InitExist ==
    /\ InitLoaded
    /\ \E files \in SUBSET CandidateFiles :
          /\ Cardinality(files) <= MaxFiles
          /\ fs = [p \in files \cup {InfoFile(ds) : ds \in Datasets} |->
                      IF p \in files THEN DataFile ELSE TextFile]
    /\ fluid_field_list = PyUnbound
    /\ nvar = PyUnbound
    /\ gamma = [ds \in Datasets |-> Absent]
    /\ instances = {}
    /\ last = [op |-> "none"]
    /\ log = <<>>
    /\ opened = {}
    /\ called = {}

NextExist ==
    \/ Construct
    \/ Exists
    \/ AnyExist

SpecExist == InitExist /\ [][NextExist]_vars

(***************************************************************************)
(* RockstarStaticOutput._is_valid                                          *)
(***************************************************************************)
\* 18077126535843729616 = 0xFADEDACEC0C0D0D0, as four 16-bit limbs, the most
\* significant first.
ROCKSTAR_MAGIC == <<64222, 56014, 49344, 53456>>

\* fpu.read_cattrs(f, header_dt): the decoded header, or an error when the
\* file is shorter than the header.
read_cattrs(f) ==
    IF fs[f].short
    THEN [exc |-> "FormatError", header |-> [magic |-> <<0, 0, 0, 0>>]]
    ELSE [exc |-> None, header |-> [magic |-> fs[f].magic]]

\* The outcome of _is_valid(path): the exception raised, the value returned
\* and the files opened.
is_valid_noSuffixTest(path) ==
    IF ~os_path_exists(path)
    THEN [exc |-> "IOError", ret |-> PyNone, opened |-> {}]
    ELSE LET r == read_cattrs(path)
         IN  IF r.exc # None
             THEN [exc |-> r.exc, ret |-> PyNone, opened |-> {path}]
             ELSE IF r.header.magic = ROCKSTAR_MAGIC
             THEN [exc |-> None, ret |-> PyBool(TRUE), opened |-> {path}]
             ELSE [exc |-> None, ret |-> PyBool(FALSE), opened |-> {path}]

is_valid(path) ==
    IF ~EndsWith(path.name, <<".", "b", "i", "n">>)
    THEN [exc |-> None, ret |-> PyBool(FALSE), opened |-> {}]
    ELSE IF ~os_path_exists(path)
    THEN [exc |-> "IOError", ret |-> PyNone, opened |-> {}]
    ELSE LET r == read_cattrs(path)
         IN  IF r.exc # None
             THEN [exc |-> r.exc, ret |-> PyNone, opened |-> {path}]
             ELSE IF r.header.magic = ROCKSTAR_MAGIC
             THEN [exc |-> None, ret |-> PyBool(TRUE), opened |-> {path}]
             ELSE [exc |-> None, ret |-> PyBool(FALSE), opened |-> {path}]

RockstarFile(short, magic) == [kind |-> "rockstar", short |-> short, magic |-> magic]

\* File names that end in ".bin" and names that do not.
BinNames == {<<"h", ".", "b", "i", "n">>, <<".", "b", "i", "n">>}
OtherNames == {<<"h", ".", "b", "i">>, <<"h", "b", "i", "n">>,
               <<"h", ".", "b", "i", "n", ".", "g", "z">>}
CandidatePaths == {Path("/halos", name) : name \in BinNames \cup OtherNames}

\* Header magics: the Rockstar one, ones that agree with it in the low or in
\* the high 32 bits only, and zero.
Magics == {ROCKSTAR_MAGIC, <<0, 0, 49344, 53456>>, <<64222, 56014, 0, 0>>, <<0, 0, 0, 0>>}

IsValid ==
    /\ \E path \in CandidatePaths :
          LET r == is_valid(path)
          IN  /\ last' = [op |-> "_is_valid", path |-> path, exc |-> r.exc, ret |-> r.ret]
              /\ opened' = r.opened
    /\ log' = <<>>
    /\ UNCHANGED <<regVars, fs, fluid_field_list, nvar, gamma, instances, called>>

\* Any of the candidate paths may be missing, hold a file too short for the
\* header, or hold a full header with any of the magics.
InitValid ==
    /\ InitLoaded
    /\ \E files \in SUBSET CandidatePaths :
       \E short \in [files -> BOOLEAN], magic \in [files -> Magics] :
          fs = [p \in files |->
                  RockstarFile(short[p], IF short[p] THEN <<0, 0, 0, 0>> ELSE magic[p])]
    /\ fluid_field_list = PyUnbound
    /\ nvar = PyUnbound
    /\ gamma = [ds \in Datasets |-> Absent]
    /\ instances = {}
    /\ last = [op |-> "none"]
    /\ log = <<>>
    /\ opened = {}
    /\ called = {}

NextValid == IsValid

SpecValid == InitValid /\ [][NextValid]_vars

(***************************************************************************)
(* Claims about the registry                                               *)
(***************************************************************************)
Registered == BagToSet(get_field_handlers)

\* C6: register_field_handler has set semantics: the registry holds exactly
\* the descriptors it was called with, each once; a call with a descriptor
\* registered before leaves the registry unchanged; no call removes an entry.
C6_RegisterIsIdempotent ==
    /\ [](/\ Registered = BagToSet(calls)
          /\ \A d \in Registered : CopiesIn(d, get_field_handlers) = 1)
    /\ [][\A d \in Descriptors :
            (CopiesIn(d, calls) >= 1 /\ CopiesIn(d, calls') > CopiesIn(d, calls))
                => FIELD_HANDLERS' = FIELD_HANDLERS]_vars
    /\ [][\A d \in Descriptors :
            CopiesIn(d, FIELD_HANDLERS') >= CopiesIn(d, FIELD_HANDLERS)]_vars

\* C6 witness: some descriptor was registered twice and is held once, beside
\* another registered descriptor.
C6_Witness ==
    \E d, e \in Descriptors :
        /\ d # e
        /\ CopiesIn(d, calls) >= 2
        /\ CopiesIn(d, get_field_handlers) = 1
        /\ CopiesIn(e, get_field_handlers) = 1

\* C10: after any sequence of class definitions the registry holds exactly
\* the created classes whose ftype, own or inherited, is not None, each once:
\* never FieldFileHandler, always HydroFieldFileHandler once it is created.
C10_RegistryIsClassesWithFtype ==
    /\ Registered = {c \in DOMAIN classes : ftype(c) # None}
    /\ \A c \in Registered : CopiesIn(c, get_field_handlers) = 1
    /\ "FieldFileHandler" \notin Registered
    /\ "HydroFieldFileHandler" \in DOMAIN classes
          => "HydroFieldFileHandler" \in Registered

\* C10 witness: a subclass that only inherits a non-None ftype is registered
\* beside its base, and another subclass that sets ftype = None is not.
C10_Witness ==
    \E c, d \in UserClasses \cap DOMAIN classes :
        /\ classes[c].class_dict.ftype = Absent
        /\ classes[c].base = "HydroFieldFileHandler"
        /\ {c, "HydroFieldFileHandler"} \subseteq Registered
        /\ classes[d].class_dict.ftype = None
        /\ d \notin Registered

(***************************************************************************)
(* Claims about get_field_list                                             *)
(***************************************************************************)
HydroPath(ds) == Path(DirOf(ds), HydroName(IoutOf(ds), 1))
HasHydro(ds) == HydroPath(ds) \in DOMAIN fs
HasRt(ds) == Path(DirOf(ds), RtInfoName(IoutOf(ds))) \in DOMAIN fs
HeaderNvar(ds) == fs[HydroPath(ds)].nvar

\* The most recent call was get_field_list(ds) and it read a header.
Inferring(ds) == last.op = "get_field_list" /\ last.ds = ds /\ HasHydro(ds)

Base5 == <<"Density", "x-velocity", "y-velocity", "z-velocity", "Pressure">>
Mhd11 ==
    <<"Density", "x-velocity", "y-velocity", "z-velocity",
      "x-Bfield-left", "y-Bfield-left", "z-Bfield-left",
      "x-Bfield-right", "y-Bfield-right", "z-Bfield-right", "Pressure">>
Rt9 ==
    <<"Density", "x-velocity", "y-velocity", "z-velocity", "Pressure",
      "Metallicity", "HII", "HeII", "HeIII">>
Rt10 ==
    <<"Density", "x-velocity", "y-velocity", "z-velocity", "Pres_IR", "Pressure",
      "Metallicity", "HII", "HeII", "HeIII">>

PhysicalNames ==
    {Mhd11[i] : i \in 1..Len(Mhd11)} \cup {Rt10[i] : i \in 1..Len(Rt10)}

\* The list as stated for a run without RT info and nvar >= 5.
StatedHydro(n) ==
    CASE n = 5 -> Base5
      [] n > 5 /\ n < 11 -> Append(Base5, "Metallicity")
      [] n = 11 -> Mhd11
      [] n > 11 -> Append(Mhd11, "Metallicity")

\* The list as stated for a run with RT info.
StatedRt(n) == IF n < 10 THEN Rt9 ELSE Rt10

\* list is stated followed by padding only: no further physical field.
InferredIs(list, stated, n) ==
    /\ Len(list) >= Len(stated)
    /\ SubSeq(list, 1, Len(stated)) = stated
    /\ \A i \in (Len(stated) + 1)..Len(list) : list[i] \notin PhysicalNames
    /\ Len(stated) >= n => list = stated

\* C1: without RT info and with nvar >= 5 the call returns the stated hydro
\* list for nvar's case (then padding), and nvar is in exactly one of the cases.
C1_HydroFieldsByNvar ==
    \A ds \in Datasets :
        (Inferring(ds) /\ ~HasRt(ds) /\ HeaderNvar(ds) >= 5) =>
            LET n == HeaderNvar(ds)
            IN  /\ Cardinality({k \in 1..4 :
                       \/ k = 1 /\ n = 5
                       \/ k = 2 /\ n > 5 /\ n < 11
                       \/ k = 3 /\ n = 11
                       \/ k = 4 /\ n > 11}) = 1
                /\ last.exc = None
                /\ last.ret.type = "list"
                /\ InferredIs(last.ret.items, StatedHydro(n), n)

\* C1 witness: calls without RT info have returned for nvar = 5 (exactly the
\* five basic fields) and for nvar = 11 (the MHD list).
C1_Witness ==
    /\ Inferring("B") /\ ~HasRt("B") /\ HeaderNvar("B") = 11
    /\ last.ret = PyList(Mhd11)
    /\ "A" \in called /\ ~HasRt("A") /\ HeaderNvar("A") = 5

\* C2: with RT info the call returns, for every nvar < 10 (also nvar < 5), the
\* 9-field RT list and for nvar >= 10 the 10-field list with Pres_IR before
\* Pressure (then padding).
C2_RtFieldsByNvar ==
    \A ds \in Datasets :
        (Inferring(ds) /\ HasRt(ds)) =>
            /\ last.exc = None
            /\ last.ret.type = "list"
            /\ InferredIs(last.ret.items, StatedRt(HeaderNvar(ds)), HeaderNvar(ds))

\* C2 witness: with RT info, nvar = 10 has returned the 10-field list after
\* nvar = 3 returned without an error.
C2_Witness ==
    /\ Inferring("B") /\ HasRt("B") /\ HeaderNvar("B") = 10
    /\ last.ret = PyList(Rt10)
    /\ "A" \in called /\ HasRt("A") /\ HeaderNvar("A") = 3

\* C3: without RT info the call raises ValueError, and returns nothing, exactly
\* when nvar < 5; for nvar >= 5 it raises nothing.
C3_TooFewVariablesRaises ==
    \A ds \in Datasets :
        (Inferring(ds) /\ ~HasRt(ds)) =>
            /\ HeaderNvar(ds) < 5 => (last.exc = "ValueError" /\ last.ret = PyNone)
            /\ HeaderNvar(ds) >= 5 => last.exc = None

\* C3 witness: nvar = 4 without RT info has raised ValueError and left no list.
C3_Witness ==
    /\ Inferring("A") /\ ~HasRt("A") /\ HeaderNvar("A") = 4
    /\ last.exc = "ValueError"
    /\ fluid_field_list = PyUnbound

\* The inferred list as stated, for either kind of run.
Stated(ds) ==
    IF HasRt(ds) THEN StatedRt(HeaderNvar(ds)) ELSE StatedHydro(HeaderNvar(ds))

\* C4: a list shorter than nvar is padded to length nvar with var<i>, i the
\* 0-based position, its prefix unchanged; nvar = 7 without RT ends in var6,
\* nvar = 12 with RT ends in var10, var11.
C4_PaddingToNvar ==
    \A ds \in Datasets :
        (Inferring(ds) /\ last.exc = None /\ Len(Stated(ds)) < HeaderNvar(ds)) =>
            LET n == HeaderNvar(ds)
                list == last.ret.items
            IN  /\ Len(list) = n
                /\ SubSeq(list, 1, Len(Stated(ds))) = Stated(ds)
                /\ \A i \in (Len(Stated(ds)) + 1)..n : list[i] = "var" \o Str(i - 1)
                /\ (n = 7 /\ ~HasRt(ds)) =>
                       list = <<"Density", "x-velocity", "y-velocity", "z-velocity",
                                "Pressure", "Metallicity", "var6">>
                /\ (n = 12 /\ HasRt(ds)) =>
                       list = <<"Density", "x-velocity", "y-velocity", "z-velocity",
                                "Pres_IR", "Pressure", "Metallicity",
                                "HII", "HeII", "HeIII", "var10", "var11">>

\* C4 witness: nvar = 12 with RT info was padded with two names after
\* nvar = 7 without RT info was padded with one.
C4_Witness ==
    /\ Inferring("B") /\ HasRt("B") /\ HeaderNvar("B") = 12
    /\ Len(last.ret.items) = 12 /\ last.ret.items[12] = "var11"
    /\ "A" \in called /\ ~HasRt("A") /\ HeaderNvar("A") = 7

\* The call inferred a list longer than nvar.
LongerThanNvar(ds) ==
    /\ Inferring(ds)
    /\ HasRt(ds) \/ HeaderNvar(ds) >= 5
    /\ Len(Stated(ds)) > HeaderNvar(ds)

HasWarning == \E i \in 1..Len(log) : log[i].level = "warning"

\* C5 as stated: a list longer than nvar is returned untruncated, the call
\* does not fail, and a warning is logged.
C5_LongerListWarns ==
    \A ds \in Datasets :
        LongerThanNvar(ds) =>
            /\ last.exc = None
            /\ last.ret = PyList(Stated(ds))
            /\ HasWarning

\* C5 amended: a list longer than nvar is returned (and cached) untruncated,
\* the call does not fail, and nothing is logged above info level: the RT
\* detection message at info level and the field list at debug level.
C5_LongerListSilent ==
    \A ds \in Datasets :
        LongerThanNvar(ds) =>
            /\ last.exc = None
            /\ last.ret = PyList(Stated(ds))
            /\ fluid_field_list = PyList(Stated(ds))
            /\ ~HasWarning
            /\ Len(log) = 2 /\ log[1].level = "info" /\ log[2].level = "debug"

\* C5 witness: with RT info and nvar = 6 the nine RT fields were returned.
C5_Witness ==
    /\ LongerThanNvar("A") /\ HeaderNvar("A") = 6
    /\ Len(last.ret.items) = 9

\* C9 as stated: the cached field list and nvar of every dataset whose list
\* was inferred are those of its own domain-1 header, whatever was inferred
\* for other datasets since.
C9_CacheIsPerDataset ==
    \A ds \in called :
        /\ fluid_field_list.type = "list"
        /\ InferredIs(fluid_field_list.items, Stated(ds), HeaderNvar(ds))
        /\ Len(fluid_field_list.items) >= HeaderNvar(ds)
        /\ nvar = PyInt(HeaderNvar(ds))

(***************************************************************************)
(* Claims about the presence checks                                        *)
(***************************************************************************)
\* C8 as stated: any_exist(ds) is true iff the handler instance of some
\* domain of ds reports exists for its resolved path.
C8_AnyExistIffSomeDomainExists ==
    \A ds \in Datasets :
        (last.op = "any_exist" /\ last.ds = ds) =>
            last.ret.val = (\E domain_id \in 1..MaxDomain : exists(HandlerInit(ds, domain_id)))

\* C7: for a path without the ".bin" suffix _is_valid returns False and opens
\* nothing; for a ".bin" file with a readable header and another magic it
\* returns False; it returns True only for a ".bin" file whose header magic is
\* the Rockstar magic; and it changes no file, dataset or class state.
C7_IsValidRejectsOtherFormats ==
    /\ [](\A path \in CandidatePaths :
            (last.op = "_is_valid" /\ last.path = path) =>
                /\ path.name \in OtherNames =>
                       (last.exc = None /\ last.ret = PyBool(FALSE) /\ opened = {})
                /\ (/\ path.name \in BinNames
                    /\ path \in DOMAIN fs
                    /\ ~fs[path].short
                    /\ fs[path].magic # <<64222, 56014, 49344, 53456>>) =>
                       (last.exc = None /\ last.ret = PyBool(FALSE))
                /\ last.ret = PyBool(TRUE) <=>
                       (/\ path.name \in BinNames
                        /\ path \in DOMAIN fs
                        /\ ~fs[path].short
                        /\ fs[path].magic = <<64222, 56014, 49344, 53456>>))
    /\ [][UNCHANGED <<fs, regVars, fluid_field_list, nvar, gamma, instances>>]_vars

\* C7 witness: a file with the Rockstar magic but another suffix was rejected
\* unopened, and a ".bin" file agreeing with the magic in its low 32 bits only
\* is present.
C7_Witness ==
    \E path, other \in CandidatePaths :
        /\ last.op = "_is_valid" /\ last.path = path
        /\ path.name = <<"h", ".", "b", "i", "n", ".", "g", "z">>
        /\ path \in DOMAIN fs /\ ~fs[path].short /\ fs[path].magic = ROCKSTAR_MAGIC
        /\ last.ret = PyBool(FALSE) /\ opened = {}
        /\ other.name \in BinNames /\ other \in DOMAIN fs
        /\ ~fs[other].short /\ fs[other].magic = <<0, 0, 49344, 53456>>

====
